---- MODULE Spec2Model ----
(***************************************************************************)
(* Model of idea_new.py: the event-idea workflow (main_workflow) and the   *)
(* pure text functions it relies on (keyword splitting, inspiration-link   *)
(* parsing, keyword merging).                                              *)
(*                                                                         *)
(* Text is a sequence of one-character strings.  Every call to the         *)
(* text-generation service is modelled as two steps: the call is issued    *)
(* (inflight holds its arguments) and then it either returns a response    *)
(* drawn from a small set or raises.                                       *)
(***************************************************************************)
EXTENDS Integers, Sequences, FiniteSets, TLC

VARIABLES
    PRODUCT_CATALOG,  \* name -> description, loaded once at import
    pc,               \* position of main_workflow
    paragraph,        \* the argument of main_workflow
    gadget_names,     \* random.sample(...) result
    product_info,     \* get_product_descriptions(gadget_names)
    base_kw,          \* extract_keywords(paragraph)
    links,            \* search_similar_events_and_products_openai(base_kw)
    link_kw,          \* keywords accumulated over the links
    li,               \* position of the "for t, u in links" loop
    all_kw,           \* sorted(set(base_kw + link_kw))
    ideas_md,         \* generate_event_ideas(...)
    summaries,        \* bullets accumulated by the summarization loop
    ki,               \* position of the "for kw in all_kw[:10]" loop
    inflight,         \* the generation call that has been issued and not yet answered
    log,              \* history of sampling and of generation calls: <<kind, index, phase>>
    result,           \* value returned by main_workflow
    parse,            \* harness of the link parser: input text and output pairs
    merge             \* harness of the keyword merge: inputs and outputs

vars == <<PRODUCT_CATALOG, pc, paragraph, gadget_names, product_info, base_kw,
          links, link_kw, li, all_kw, ideas_md, summaries, ki, inflight, log,
          result, parse, merge>>

wfvars == <<PRODUCT_CATALOG, pc, paragraph, gadget_names, product_info, base_kw,
            links, link_kw, li, all_kw, ideas_md, summaries, ki, inflight, log,
            result>>

-----------------------------------------------------------------------------
(* Characters and strings *)

\* The characters used by the model, in code point order (Python compares
\* strings by code point).
CodeOrder ==
    <<"\n", " ", ",", "-", ".", "/", ":",
      "A", "B", "C", "D", "E", "F", "G", "H", "I", "J", "K", "M", "P", "T", "X",
      "a", "b", "c", "d", "e", "f", "g", "h", "i", "j", "k", "m", "p", "t", "x">>

UpperCase == <<"A", "B", "C", "D", "E", "F", "G", "H", "I", "J", "K", "M", "P", "T", "X">>
LowerCase == <<"a", "b", "c", "d", "e", "f", "g", "h", "i", "j", "k", "m", "p", "t", "x">>

Ord(c) == CHOOSE n \in 1..Len(CodeOrder) : CodeOrder[n] = c

IsUpper(c) == \E n \in 1..Len(UpperCase) : UpperCase[n] = c
IsLower(c) == \E n \in 1..Len(LowerCase) : LowerCase[n] = c
IsLetter(c) == IsUpper(c) \/ IsLower(c)

\* str.lower / str.upper on one character
LowerChar(c) ==
    IF IsUpper(c) THEN LowerCase[CHOOSE n \in 1..Len(UpperCase) : UpperCase[n] = c] ELSE c
UpperChar(c) ==
    IF IsLower(c) THEN UpperCase[CHOOSE n \in 1..Len(LowerCase) : LowerCase[n] = c] ELSE c

Lower(s) == [n \in 1..Len(s) |-> LowerChar(s[n])]

\* str.title(): a letter is upper-cased when it starts a word (follows a
\* non-letter) and lower-cased otherwise
Title(s) ==
    [n \in 1..Len(s) |->
        IF n = 1 \/ ~IsLetter(s[n - 1]) THEN UpperChar(s[n]) ELSE LowerChar(s[n])]

IsSpace(c) == c \in {" ", "\n"}

\* str.strip()
RECURSIVE LStrip(_)
LStrip(s) == IF s # <<>> /\ IsSpace(Head(s)) THEN LStrip(Tail(s)) ELSE s

RECURSIVE RStrip(_)
RStrip(s) ==
    IF s # <<>> /\ IsSpace(s[Len(s)]) THEN RStrip(SubSeq(s, 1, Len(s) - 1)) ELSE s

Strip(s) == RStrip(LStrip(s))

\* does pat occur in s at position n
MatchAt(s, pat, n) ==
    /\ n + Len(pat) - 1 <= Len(s)
    /\ \A m \in 1..Len(pat) : s[n + m - 1] = pat[m]

\* pat in s
Contains(s, pat) == \E n \in 1..(Len(s) + 1) : MatchAt(s, pat, n)

\* s.split(c) for a set of one-character separators (also re.split('[,\n]', s)):
\* the fragments between consecutive separators, the empty ones included
SplitChars(s, seps) ==
    LET at == {n \in 1..Len(s) : s[n] \in seps}
        nth(k) == CHOOSE n \in at : Cardinality({m \in at : m < n}) = k - 1
        first(k) == IF k = 1 THEN 1 ELSE nth(k - 1) + 1
        last(k) == IF k = Cardinality(at) + 1 THEN Len(s) ELSE nth(k) - 1
    IN  [k \in 1..(Cardinality(at) + 1) |-> SubSeq(s, first(k), last(k))]

\* s.split(sep, 1)
RECURSIVE SplitFirstFrom(_, _, _)
SplitFirstFrom(s, sep, n) ==
    IF n + Len(sep) - 1 > Len(s) THEN <<s>>
    ELSE IF MatchAt(s, sep, n)
         THEN <<SubSeq(s, 1, n - 1), SubSeq(s, n + Len(sep), Len(s))>>
         ELSE SplitFirstFrom(s, sep, n + 1)

SplitFirst(s, sep) == SplitFirstFrom(s, sep, 1)

\* sep.join(parts)
RECURSIVE Join(_, _)
Join(parts, sep) ==
    IF parts = <<>> THEN <<>>
    ELSE IF Len(parts) = 1 THEN parts[1]
    ELSE parts[1] \o sep \o Join(Tail(parts), sep)

\* a < b for Python strings
LexLess(a, b) ==
    \E n \in 1..(Len(b)) :
        /\ \A m \in 1..(n - 1) : m <= Len(a) /\ a[m] = b[m]
        /\ \/ n = Len(a) + 1
           \/ n <= Len(a) /\ Ord(a[n]) < Ord(b[n])

Range(s) == {s[n] : n \in 1..Len(s)}

Min(a, b) == IF a <= b THEN a ELSE b

-----------------------------------------------------------------------------
(* Program constants *)

SampleSize == 4                 \* k of random.sample
IdeaCounts == {5, 6, 7, 8}      \* random.choice([5,6,7,8])
MaxLinks == 10                  \* results[:10]
MaxSummaries == 10              \* all_kw[:10]

HTTP == <<"h", "t", "t", "p">>
SEPARATOR == <<" ", "-", " ">>
GAME == <<"g", "a", "m", "e">>

-----------------------------------------------------------------------------
(* Pure functions of the program *)

\* PRODUCT_CATALOG.get(name): None when the name is no key
CatalogGet(catalog, name) ==
    IF name \in DOMAIN catalog
    THEN [found |-> TRUE, desc |-> catalog[name]]
    ELSE [found |-> FALSE, desc |-> <<>>]

\* get_product_descriptions: one entry "**name**\ndesc" per name whose
\* description is truthy; the entries are later joined by blank lines
RECURSIVE get_product_descriptions(_, _)
get_product_descriptions(catalog, product_names) ==
    IF product_names = <<>> THEN <<>>
    ELSE LET name == Head(product_names)
             got == CatalogGet(catalog, name)
             rest == get_product_descriptions(catalog, Tail(product_names))
         IN  IF got.found /\ got.desc # <<>>
             THEN <<[name |-> name, desc |-> got.desc]>> \o rest
             ELSE rest

\* [kw.strip().lower() for kw in re.split(r'[,\n]', raw) if kw.strip()]
RECURSIVE NormalizeKeywords(_)
NormalizeKeywords(frags) ==
    IF frags = <<>> THEN <<>>
    ELSE IF Strip(Head(frags)) # <<>>
         THEN <<Lower(Strip(Head(frags)))>> \o NormalizeKeywords(Tail(frags))
         ELSE NormalizeKeywords(Tail(frags))

ParseKeywords(raw) == NormalizeKeywords(SplitChars(raw, {",", "\n"}))

\* Faulty variant of LinkOfLine: the parts are not trimmed.
LinkOfLineUntrimmed(line) ==
    LET parts == SplitFirst(line, SEPARATOR)
    IN  IF Len(parts) = 2 THEN <<parts[1], parts[2]>> ELSE <<line, line>>

\* the pair appended for one line that contains "http"
LinkOfLine(line) ==
    LET parts == SplitFirst(line, SEPARATOR)
    IN  IF Len(parts) = 2
        THEN <<Strip(parts[1]), Strip(parts[2])>>
        ELSE <<Strip(line), Strip(line)>>

\* the loop over content.split("\n")
RECURSIVE CollectLinks(_)
CollectLinks(lines) ==
    IF lines = <<>> THEN <<>>
    ELSE IF Contains(Head(lines), HTTP)
         THEN <<LinkOfLine(Head(lines))>> \o CollectLinks(Tail(lines))
         ELSE CollectLinks(Tail(lines))

\* Faulty variant of CapLinks: the slice is missing.
CapLinksOff(results) == results

\* results[:10]
CapLinks(results) == SubSeq(results, 1, Min(MaxLinks, Len(results)))

\* the body of the try of search_similar_events_and_products_openai once
\* response.output_text is at hand
ParseLinks(content) == CapLinks(CollectLinks(SplitChars(content, {"\n"})))

\* sorted(S) for a set of strings: each member stands after the members
\* that are less than it
SortSet(S) ==
    [n \in 1..Cardinality(S) |->
        CHOOSE x \in S : Cardinality({y \in S : LexLess(y, x)}) = n - 1]

\* Faulty variant of MergeKw: duplicates are dropped in first-seen order and
\* the result is not sorted.
RECURSIVE FirstSeen(_, _)
FirstSeen(s, seen) ==
    IF s = <<>> THEN <<>>
    ELSE IF Head(s) \in seen THEN FirstSeen(Tail(s), seen)
    ELSE <<Head(s)>> \o FirstSeen(Tail(s), seen \cup {Head(s)})

MergeKwFirstSeen(base, link) == FirstSeen(base \o link, {})

\* sorted(set(base_kw + link_kw))
MergeKw(base, link) == SortSet(Range(base \o link))

\* any("game" in kw for kw in all_keywords)
IncludeGames(keywords) == \E n \in 1..Len(keywords) : Contains(keywords[n], GAME)

-----------------------------------------------------------------------------
(* Bounds and inputs *)

MaxExtra == 1     \* keywords / link lines of the long responses beyond the caps
MaxHead == 2      \* leading lines of a search response given to the link parser
MaxKwList == 2    \* length of the keyword lists given to the merge

\* Product names are opaque; descriptions are text, possibly empty.
CatalogThree == [n \in {"p1", "p2", "p3"} |-> <<"d">>]
CatalogFour == [n \in {"p1", "p2", "p3", "p4"} |-> IF n = "p2" THEN <<>> ELSE <<"d">>]
CatalogFive == [n \in {"p1", "p2", "p3", "p4", "p5"} |-> <<"d", "x">>]
Catalogs == {CatalogThree, CatalogFour, CatalogFive}

Paragraphs == {<<>>, <<" ">>, <<" ", "\n">>, <<" ", "a", " ">>}

\* "k,j,...,b,a": more keywords than are summarized, in descending order
LongKeywordText ==
    LET n == MaxSummaries + MaxExtra
    IN  Join([m \in 1..n |-> <<LowerCase[n + 1 - m]>>], <<",">>)

\* raw answers of the keyword extraction from the paragraph
BaseResponses ==
    { <<"b", ",", "a">>,
      <<" ", "A", " ", "b", " ", ",", ",", "g", "a", "m", "e", "\n", "B", ",", "b">>,
      LongKeywordText }

\* "A - httpa", "httpb", "C - httpc", ...: one line per link, every other
\* one without a title
LinkLine(m) ==
    IF m % 2 = 1
    THEN <<UpperCase[m]>> \o SEPARATOR \o HTTP \o <<LowerCase[m]>>
    ELSE HTTP \o <<LowerCase[m]>>
LongLinkLines == [m \in 1..(MaxLinks + MaxExtra) |-> LinkLine(m)]

\* output_text of the inspiration search
SearchResponses ==
    { <<"x">>,
      <<"T", " ", "-", " ", "h", "t", "t", "p", "\n",
        " ", "h", "t", "t", "p", ":", "/", "/", "x", " ", "\n", "a", "b">>,
      Join(LongLinkLines, <<"\n">>) }

\* raw answers of the keyword extraction from a link
LinkKwResponses == { <<"c", ",", " ", "a">> }

\* answers of the idea generation and of a one-line summary
IdeaResponses == { <<"i", "d", "e", "a", "s">> }
SummaryResponses == { <<" ", "x", "\n">> }

-----------------------------------------------------------------------------
(* Values returned by main_workflow *)

\* every message to the user starts with the cross-mark emoji
FailureMarker == "cross-mark"

NoResult == [kind |-> "none", marker |-> "", text |-> "", summary |-> <<>>, ideas |-> <<>>]

ValidationMessage ==
    [kind |-> "validation", marker |-> FailureMarker,
     text |-> "Please enter an event description.", summary |-> <<>>, ideas |-> <<>>]

ErrorMessage(text) ==
    [kind |-> "error", marker |-> FailureMarker, text |-> text,
     summary |-> <<>>, ideas |-> <<>>]

\* the final f-string: the summary bullets joined by newlines, a blank
\* line, the ideas markdown
Document(bullets, ideas) ==
    [kind |-> "document", marker |-> "", text |-> "Relevant Keywords Summary:",
     summary |-> bullets, ideas |-> ideas]

\* "- **{kw.title()}**: {desc}" and "- **{kw.title()}**"
Bullet(kw, desc) == [label |-> Title(kw), described |-> TRUE, desc |-> desc]
BareBullet(kw) == [label |-> Title(kw), described |-> FALSE, desc |-> <<>>]

NoCall == [kind |-> "none", idx |-> 0, args |-> <<>>]

Logged(kind, idx, phase) == Append(log, <<kind, idx, phase>>)

-----------------------------------------------------------------------------
(* main_workflow *)

harness == <<parse, merge>>

\* Faulty variant of Submit: "if not paragraph" without strip().
SubmitNoStrip(p) ==
    /\ pc = "idle"
    /\ paragraph' = p
    /\ IF p = <<>>
       THEN /\ result' = ValidationMessage
            /\ pc' = "returned"
       ELSE /\ result' = result
            /\ pc' = "sample"
    /\ UNCHANGED <<PRODUCT_CATALOG, gadget_names, product_info, base_kw, links,
                   link_kw, li, all_kw, ideas_md, summaries, ki, inflight, log, harness>>

\* entry and validation of the paragraph
Submit(p) ==
    /\ pc = "idle"
    /\ paragraph' = p
    /\ IF Strip(p) = <<>>
       THEN /\ result' = ValidationMessage
            /\ pc' = "returned"
       ELSE /\ result' = result
            /\ pc' = "sample"
    /\ UNCHANGED <<PRODUCT_CATALOG, gadget_names, product_info, base_kw, links,
                   link_kw, li, all_kw, ideas_md, summaries, ki, inflight, log, harness>>

\* Faulty variant of Samples: random.choices, drawing with replacement.
SamplesWithReplacement(population, k) == [1..k -> population]

\* random.sample(population, k): the sequences of k distinct members
Samples(population, k) ==
    {s \in [1..k -> population] : \A a, b \in 1..k : a # b => s[a] # s[b]}

\* 1. random.sample succeeds and the descriptions are collected
SampleProducts ==
    /\ pc = "sample"
    /\ Cardinality(DOMAIN PRODUCT_CATALOG) >= SampleSize
    /\ \E names \in Samples(DOMAIN PRODUCT_CATALOG, SampleSize) :
          /\ gadget_names' = names
          /\ product_info' = get_product_descriptions(PRODUCT_CATALOG, names)
    /\ log' = Logged("sample", 0, "ok")
    /\ pc' = "base"
    /\ UNCHANGED <<PRODUCT_CATALOG, paragraph, base_kw, links, link_kw, li, all_kw,
                   ideas_md, summaries, ki, inflight, result, harness>>

\* 1. random.sample raises ValueError: the catalog has fewer than k keys
SampleFails ==
    /\ pc = "sample"
    /\ Cardinality(DOMAIN PRODUCT_CATALOG) < SampleSize
    /\ log' = Logged("sample", 0, "fail")
    /\ result' = ErrorMessage("Error selecting products")
    /\ pc' = "returned"
    /\ UNCHANGED <<PRODUCT_CATALOG, paragraph, gadget_names, product_info, base_kw,
                   links, link_kw, li, all_kw, ideas_md, summaries, ki, inflight, harness>>

\* 2. extract_keywords(paragraph): the request is sent
IssueBase ==
    /\ pc = "base"
    /\ inflight' = [kind |-> "base", idx |-> 0, args |-> [paragraph |-> paragraph]]
    /\ log' = Logged("base", 0, "call")
    /\ pc' = "base_wait"
    /\ UNCHANGED <<PRODUCT_CATALOG, paragraph, gadget_names, product_info, base_kw,
                   links, link_kw, li, all_kw, ideas_md, summaries, ki, result, harness>>

BaseReturns(raw) ==
    /\ pc = "base_wait"
    /\ base_kw' = ParseKeywords(raw)
    /\ inflight' = NoCall
    /\ log' = Logged("base", 0, "ok")
    /\ pc' = "search"
    /\ UNCHANGED <<PRODUCT_CATALOG, paragraph, gadget_names, product_info, links,
                   link_kw, li, all_kw, ideas_md, summaries, ki, result, harness>>

\* the except of stage 2
BaseFails ==
    /\ pc = "base_wait"
    /\ inflight' = NoCall
    /\ log' = Logged("base", 0, "fail")
    /\ result' = ErrorMessage("Error in keyword extraction or web search")
    /\ pc' = "returned"
    /\ UNCHANGED <<PRODUCT_CATALOG, paragraph, gadget_names, product_info, base_kw,
                   links, link_kw, li, all_kw, ideas_md, summaries, ki, harness>>

\* search_similar_events_and_products_openai(base_kw): the request is sent
IssueSearch ==
    /\ pc = "search"
    /\ inflight' = [kind |-> "search", idx |-> 0, args |-> [keywords |-> base_kw]]
    /\ log' = Logged("search", 0, "call")
    /\ pc' = "search_wait"
    /\ UNCHANGED <<PRODUCT_CATALOG, paragraph, gadget_names, product_info, base_kw,
                   links, link_kw, li, all_kw, ideas_md, summaries, ki, result, harness>>

SearchReturns(content) ==
    /\ pc = "search_wait"
    /\ links' = ParseLinks(content)
    /\ link_kw' = <<>>
    /\ li' = 1
    /\ inflight' = NoCall
    /\ log' = Logged("search", 0, "ok")
    /\ pc' = "links"
    /\ UNCHANGED <<PRODUCT_CATALOG, paragraph, gadget_names, product_info, base_kw,
                   all_kw, ideas_md, summaries, ki, result, harness>>

\* Faulty variant of SearchFails: the exception reaches the except of stage 2.
SearchFailsFatal ==
    /\ pc = "search_wait"
    /\ inflight' = NoCall
    /\ log' = Logged("search", 0, "fail")
    /\ result' = ErrorMessage("Error in keyword extraction or web search")
    /\ pc' = "returned"
    /\ UNCHANGED <<PRODUCT_CATALOG, paragraph, gadget_names, product_info, base_kw,
                   links, link_kw, li, all_kw, ideas_md, summaries, ki, harness>>

\* the except inside the search: "Search failed", return []
SearchFails ==
    /\ pc = "search_wait"
    /\ links' = <<>>
    /\ link_kw' = <<>>
    /\ li' = 1
    /\ inflight' = NoCall
    /\ log' = Logged("search", 0, "fail")
    /\ pc' = "links"
    /\ UNCHANGED <<PRODUCT_CATALOG, paragraph, gadget_names, product_info, base_kw,
                   all_kw, ideas_md, summaries, ki, result, harness>>

\* extract_keywords_from_title_and_link(t, u) for the next link
IssueLinkKw ==
    /\ pc = "links"
    /\ li <= Len(links)
    /\ inflight' = [kind |-> "link", idx |-> li,
                    args |-> [title |-> links[li][1], link |-> links[li][2]]]
    /\ log' = Logged("link", li, "call")
    /\ pc' = "link_wait"
    /\ UNCHANGED <<PRODUCT_CATALOG, paragraph, gadget_names, product_info, base_kw,
                   links, link_kw, li, all_kw, ideas_md, summaries, ki, result, harness>>

LinkKwReturns(raw) ==
    /\ pc = "link_wait"
    /\ link_kw' = link_kw \o ParseKeywords(raw)
    /\ li' = li + 1
    /\ inflight' = NoCall
    /\ log' = Logged("link", li, "ok")
    /\ pc' = "links"
    /\ UNCHANGED <<PRODUCT_CATALOG, paragraph, gadget_names, product_info, base_kw,
                   links, all_kw, ideas_md, summaries, ki, result, harness>>

\* Faulty variant of LinkKwFails: the failure is swallowed and the loop goes on.
LinkKwFailsSwallowed ==
    /\ pc = "link_wait"
    /\ li' = li + 1
    /\ inflight' = NoCall
    /\ log' = Logged("link", li, "fail")
    /\ pc' = "links"
    /\ UNCHANGED <<PRODUCT_CATALOG, paragraph, gadget_names, product_info, base_kw,
                   links, link_kw, all_kw, ideas_md, summaries, ki, result, harness>>

\* the except of stage 2
LinkKwFails ==
    /\ pc = "link_wait"
    /\ inflight' = NoCall
    /\ log' = Logged("link", li, "fail")
    /\ result' = ErrorMessage("Error in keyword extraction or web search")
    /\ pc' = "returned"
    /\ UNCHANGED <<PRODUCT_CATALOG, paragraph, gadget_names, product_info, base_kw,
                   links, link_kw, li, all_kw, ideas_md, summaries, ki, harness>>

\* Faulty variant of MergeKeywords: the loop is left after the first link.
MergeKeywordsEarly ==
    /\ pc = "links"
    /\ li > Min(1, Len(links))
    /\ all_kw' = MergeKw(base_kw, link_kw)
    /\ pc' = "ideas"
    /\ UNCHANGED <<PRODUCT_CATALOG, paragraph, gadget_names, product_info, base_kw,
                   links, link_kw, li, ideas_md, summaries, ki, inflight, log,
                   result, harness>>

\* the loop over the links is over: all_kw = sorted(set(base_kw + link_kw))
MergeKeywords ==
    /\ pc = "links"
    /\ li > Len(links)
    /\ all_kw' = MergeKw(base_kw, link_kw)
    /\ pc' = "ideas"
    /\ UNCHANGED <<PRODUCT_CATALOG, paragraph, gadget_names, product_info, base_kw,
                   links, link_kw, li, ideas_md, summaries, ki, inflight, log,
                   result, harness>>

\* 3. idea_count = random.choice([5,6,7,8]); generate_event_ideas(...) is sent
IssueIdeas ==
    /\ pc = "ideas"
    /\ \E idea_count \in IdeaCounts :
          inflight' = [kind |-> "ideas", idx |-> 0,
                       args |-> [paragraph |-> paragraph,
                                 product_info |-> product_info,
                                 search_links |-> links,
                                 include_games |-> IncludeGames(all_kw),
                                 idea_count |-> idea_count]]
    /\ log' = Logged("ideas", 0, "call")
    /\ pc' = "ideas_wait"
    /\ UNCHANGED <<PRODUCT_CATALOG, paragraph, gadget_names, product_info, base_kw,
                   links, link_kw, li, all_kw, ideas_md, summaries, ki, result, harness>>

\* The locals gadget_names and product_info are not read after this call:
\* the model forgets them here.
IdeasReturn(md) ==
    /\ pc = "ideas_wait"
    /\ ideas_md' = md
    /\ summaries' = <<>>
    /\ ki' = 1
    /\ gadget_names' = <<>>
    /\ product_info' = <<>>
    /\ inflight' = NoCall
    /\ log' = Logged("ideas", 0, "ok")
    /\ pc' = "summaries"
    /\ UNCHANGED <<PRODUCT_CATALOG, paragraph, base_kw, links, link_kw, li, all_kw,
                   result, harness>>

\* the except of stage 3
IdeasFail ==
    /\ pc = "ideas_wait"
    /\ inflight' = NoCall
    /\ log' = Logged("ideas", 0, "fail")
    /\ result' = ErrorMessage("Error generating ideas")
    /\ pc' = "returned"
    /\ UNCHANGED <<PRODUCT_CATALOG, paragraph, gadget_names, product_info, base_kw,
                   links, link_kw, li, all_kw, ideas_md, summaries, ki, harness>>

\* all_kw[:10]
TopKeywords(keywords) == SubSeq(keywords, 1, Min(MaxSummaries, Len(keywords)))

\* 4. the one-line description of the next keyword is requested
IssueSummary ==
    /\ pc = "summaries"
    /\ ki <= Len(TopKeywords(all_kw))
    /\ inflight' = [kind |-> "summary", idx |-> ki, args |-> [kw |-> all_kw[ki]]]
    /\ log' = Logged("summary", ki, "call")
    /\ pc' = "summary_wait"
    /\ UNCHANGED <<PRODUCT_CATALOG, paragraph, gadget_names, product_info, base_kw,
                   links, link_kw, li, all_kw, ideas_md, summaries, ki, result, harness>>

SummaryReturns(content) ==
    /\ pc = "summary_wait"
    /\ summaries' = Append(summaries, Bullet(all_kw[ki], Strip(content)))
    /\ ki' = ki + 1
    /\ inflight' = NoCall
    /\ log' = Logged("summary", ki, "ok")
    /\ pc' = "summaries"
    /\ UNCHANGED <<PRODUCT_CATALOG, paragraph, gadget_names, product_info, base_kw,
                   links, link_kw, li, all_kw, ideas_md, result, harness>>

\* Faulty variant of SummaryFails: the failing keyword gets no bullet.
SummaryFailsSkips ==
    /\ pc = "summary_wait"
    /\ ki' = ki + 1
    /\ inflight' = NoCall
    /\ log' = Logged("summary", ki, "fail")
    /\ pc' = "summaries"
    /\ UNCHANGED <<PRODUCT_CATALOG, paragraph, gadget_names, product_info, base_kw,
                   links, link_kw, li, all_kw, ideas_md, summaries, result, harness>>

\* Faulty variant of SummaryFails: the failing keyword is tried again.
SummaryFailsRetry ==
    /\ pc = "summary_wait"
    /\ inflight' = NoCall
    /\ log' = Logged("summary", ki, "fail")
    /\ pc' = "summaries"
    /\ UNCHANGED <<PRODUCT_CATALOG, paragraph, gadget_names, product_info, base_kw,
                   links, link_kw, li, all_kw, ideas_md, summaries, ki, result, harness>>

\* the except inside the loop: the bare bullet
SummaryFails ==
    /\ pc = "summary_wait"
    /\ summaries' = Append(summaries, BareBullet(all_kw[ki]))
    /\ ki' = ki + 1
    /\ inflight' = NoCall
    /\ log' = Logged("summary", ki, "fail")
    /\ pc' = "summaries"
    /\ UNCHANGED <<PRODUCT_CATALOG, paragraph, gadget_names, product_info, base_kw,
                   links, link_kw, li, all_kw, ideas_md, result, harness>>

\* 5. the final document is returned
Assemble ==
    /\ pc = "summaries"
    /\ ki > Len(TopKeywords(all_kw))
    /\ result' = Document(summaries, ideas_md)
    /\ pc' = "returned"
    /\ UNCHANGED <<PRODUCT_CATALOG, paragraph, gadget_names, product_info, base_kw,
                   links, link_kw, li, all_kw, ideas_md, summaries, ki, inflight, log,
                   harness>>

-----------------------------------------------------------------------------
(* Specification of one request *)

NoParse == [lines |-> <<>>, content |-> <<>>, out |-> <<>>, done |-> FALSE]
NoMerge == [base |-> <<>>, link |-> <<>>, out |-> <<>>, again |-> <<>>,
            self |-> <<>>, step |-> 0]

WorkflowInit(catalogs) ==
    /\ PRODUCT_CATALOG \in catalogs
    /\ pc = "idle"
    /\ paragraph = <<>>
    /\ gadget_names = <<>>
    /\ product_info = <<>>
    /\ base_kw = <<>>
    /\ links = <<>>
    /\ link_kw = <<>>
    /\ li = 1
    /\ all_kw = <<>>
    /\ ideas_md = <<>>
    /\ summaries = <<>>
    /\ ki = 1
    /\ inflight = NoCall
    /\ log = <<>>
    /\ result = NoResult

Init ==
    /\ WorkflowInit(Catalogs)
    /\ parse = NoParse
    /\ merge = NoMerge

Next ==
    \/ \E p \in Paragraphs : Submit(p)
    \/ SampleProducts
    \/ SampleFails
    \/ IssueBase
    \/ \E raw \in BaseResponses : BaseReturns(raw)
    \/ BaseFails
    \/ IssueSearch
    \/ \E content \in SearchResponses : SearchReturns(content)
    \/ SearchFails
    \/ IssueLinkKw
    \/ \E raw \in LinkKwResponses : LinkKwReturns(raw)
    \/ LinkKwFails
    \/ MergeKeywords
    \/ IssueIdeas
    \/ \E md \in IdeaResponses : IdeasReturn(md)
    \/ IdeasFail
    \/ IssueSummary
    \/ \E content \in SummaryResponses : SummaryReturns(content)
    \/ SummaryFails
    \/ Assemble

Spec == Init /\ [][Next]_vars

\* Every call returns or fails and the interpreter keeps running the request:
\* a step that can be taken is eventually taken.  The catalogs with 3 and
\* with 4 products are enough here: the products do not change the calls.
InitFair ==
    /\ WorkflowInit({CatalogThree, CatalogFour})
    /\ parse = NoParse
    /\ merge = NoMerge

FairSpec == InitFair /\ [][Next]_vars /\ WF_vars(Next)

-----------------------------------------------------------------------------
(* The link parser on its own: ParseLinks applied to bounded responses *)

\* lines a search response may hold
ParseLineSet ==
    { <<"T", " ", "-", " ", "h", "t", "t", "p">>,                  \* "T - http"
      <<"h", "t", "t", "p">>,                                      \* "http"
      <<" ", "h", "t", "t", "p", " ">>,                            \* " http "
      <<"a", " ", "-", " ", "b">>,                                 \* "a - b"
      <<"T", " ", " ", "-", " ", "h", "t", "t", "p", " ", "-", " ", "x">>,  \* "T  - http - x"
      <<"a", "-", "h", "t", "t", "p">>,                            \* "a-http"
      <<>> }

SeqsUpTo(S, n) == UNION {[1..k -> S] : k \in 0..n}

ParseInputs ==
    {head \o SubSeq(LongLinkLines, 1, k) :
        head \in SeqsUpTo(ParseLineSet, MaxHead), k \in 0..(MaxLinks + MaxExtra)}

InitParse ==
    /\ WorkflowInit({CatalogFour})
    /\ merge = NoMerge
    /\ \E ls \in ParseInputs :
          parse = [lines |-> ls, content |-> Join(ls, <<"\n">>), out |-> <<>>,
                   done |-> FALSE]

\* the search call returned parse.content
ParseResponse ==
    /\ ~parse.done
    /\ parse' = [parse EXCEPT !.out = ParseLinks(parse.content), !.done = TRUE]
    /\ UNCHANGED <<wfvars, merge>>

NextParse == ParseResponse

SpecParse == InitParse /\ [][NextParse]_vars

-----------------------------------------------------------------------------
(* The keyword merge on its own: MergeKw applied to bounded keyword lists *)

MergeKeywordSet == { <<"a">>, <<"b">>, <<"c">>, <<"a", " ", "b">> }

InitMerge ==
    /\ WorkflowInit({CatalogFour})
    /\ parse = NoParse
    /\ \E b \in SeqsUpTo(MergeKeywordSet, MaxKwList) :
       \E l \in SeqsUpTo(MergeKeywordSet, MaxKwList) :
          merge = [base |-> b, link |-> l, out |-> <<>>, again |-> <<>>,
                   self |-> <<>>, step |-> 0]

\* all_kw = sorted(set(base_kw + link_kw))
MergeOnce ==
    /\ merge.step = 0
    /\ merge' = [merge EXCEPT !.out = MergeKw(merge.base, merge.link), !.step = 1]
    /\ UNCHANGED <<wfvars, parse>>

\* the result merged with the same inputs again
MergeAgain ==
    /\ merge.step = 1
    /\ merge' = [merge EXCEPT !.again = MergeKw(merge.out, merge.base \o merge.link),
                              !.step = 2]
    /\ UNCHANGED <<wfvars, parse>>

\* the result merged with itself
MergeSelf ==
    /\ merge.step = 2
    /\ merge' = [merge EXCEPT !.self = MergeKw(merge.out, merge.out), !.step = 3]
    /\ UNCHANGED <<wfvars, parse>>

NextMerge == MergeOnce \/ MergeAgain \/ MergeSelf

SpecMerge == InitMerge /\ [][NextMerge]_vars

-----------------------------------------------------------------------------
(* Properties of the link parser *)

HasHttp(line) == Contains(line, HTTP)

\* position of the first " - " of a line, 0 when there is none
FirstSeparator(line) ==
    IF \E n \in 1..Len(line) : MatchAt(line, SEPARATOR, n)
    THEN CHOOSE n \in 1..Len(line) :
            /\ MatchAt(line, SEPARATOR, n)
            /\ \A m \in 1..(n - 1) : ~MatchAt(line, SEPARATOR, m)
    ELSE 0

LeftPart(line) == SubSeq(line, 1, FirstSeparator(line) - 1)
RightPart(line) == SubSeq(line, FirstSeparator(line) + Len(SEPARATOR), Len(line))

\* the lines of the response that contain "http", in response order
MatchingLines == SelectSeq(parse.lines, HasHttp)

\* C7 as stated: the lines without "http" are ignored, every other line
\* yields (left part, right part) of its first " - ", or (line, line) when it
\* has none, in response order, and only the first 10 pairs are returned.
C7_LinkParsingAsStated ==
    parse.done =>
        /\ Len(parse.out) = Min(10, Len(MatchingLines))
        /\ \A n \in 1..Len(parse.out) :
              LET line == MatchingLines[n]
              IN  parse.out[n] =
                      IF FirstSeparator(line) > 0
                      THEN <<LeftPart(line), RightPart(line)>>
                      ELSE <<line, line>>

\* C7 amended: as above, with the title, the url and the whole line trimmed
\* of surrounding whitespace.
C7_LinkParsingTrimmed ==
    parse.done =>
        /\ Len(parse.out) = Min(10, Len(MatchingLines))
        /\ \A n \in 1..Len(parse.out) :
              LET line == MatchingLines[n]
              IN  parse.out[n] =
                      IF FirstSeparator(line) > 0
                      THEN <<Strip(LeftPart(line)), Strip(RightPart(line))>>
                      ELSE <<Strip(line), Strip(line)>>

\* a response with an ignored line, a padded line with two separators, a
\* bare url and more than 10 matching lines has been parsed
C7_Witness ==
    /\ parse.done
    /\ Len(MatchingLines) > 10
    /\ Len(parse.lines) > Len(MatchingLines)
    /\ Len(parse.out) = 10
    /\ parse.lines[1] = <<"T", " ", " ", "-", " ", "h", "t", "t", "p", " ", "-", " ", "x">>
    /\ parse.out[1] = << <<"T">>, <<"h", "t", "t", "p", " ", "-", " ", "x">> >>
    /\ \E n \in 1..Len(parse.out) : parse.out[n][1] = parse.out[n][2]

-----------------------------------------------------------------------------
(* Properties of the keyword merge *)

StrictlyAscending(s) == \A a, b \in 1..Len(s) : a < b => LexLess(s[a], s[b])

\* C8: the merge is the duplicate-free, strictly ascending sequence of the
\* keywords of both lists; merging the result with the same inputs again,
\* or with itself, gives the same result.
C8_MergeSortedIdempotent ==
    /\ merge.step >= 1 =>
          /\ StrictlyAscending(merge.out)
          /\ Range(merge.out) = Range(merge.base) \cup Range(merge.link)
          /\ Len(merge.out) = Cardinality(Range(merge.base) \cup Range(merge.link))
    /\ merge.step >= 2 => merge.again = merge.out
    /\ merge.step >= 3 => merge.self = merge.out

\* ["b","a"] merged with ["a","c"] gave ["a","b","c"], twice
C8_Witness ==
    /\ merge.step = 3
    /\ merge.base = << <<"b">>, <<"a">> >>
    /\ merge.link = << <<"a">>, <<"c">> >>
    /\ merge.out = << <<"a">>, <<"b">>, <<"c">> >>
    /\ merge.self = merge.out

-----------------------------------------------------------------------------
(* Properties of main_workflow *)

InLog(kind, idx, phase) == \E n \in 1..Len(log) : log[n] = <<kind, idx, phase>>

\* positions of the log at which a generation call is issued
CallPositions == {n \in 1..Len(log) : log[n][3] = "call"}

WhitespaceOnly(text) == \A n \in 1..Len(text) : text[n] \in {" ", "\n"}

\* C1: once an empty or whitespace-only paragraph has been submitted, the
\* workflow has returned the fixed validation message, nothing was sampled
\* and no generation call was issued.
C1_BlankParagraphShortCircuits ==
    (pc # "idle" /\ WhitespaceOnly(paragraph)) =>
        /\ pc = "returned"
        /\ result = ValidationMessage
        /\ log = <<>>
        /\ inflight = NoCall
        /\ gadget_names = <<>>
        /\ product_info = <<>>

\* a paragraph of two whitespace characters was rejected
C1_Witness ==
    /\ pc = "returned"
    /\ paragraph = <<" ", "\n">>
    /\ result = ValidationMessage
    /\ log = <<>>

\* C2: after a failed inspiration search the link list is empty, no
\* per-link extraction is ever issued, the idea generator is called without
\* links, the merged keywords are the duplicate-free sorted base keywords,
\* and unless the idea generation fails the request returns the normal
\* document with the generated ideas.
C2_SearchFailureDegrades ==
    InLog("search", 0, "fail") =>
        /\ links = <<>>
        /\ \A n \in 1..Len(log) : log[n][1] # "link"
        /\ inflight.kind = "ideas" => inflight.args.search_links = <<>>
        /\ pc \notin {"links"} =>
              /\ StrictlyAscending(all_kw)
              /\ Range(all_kw) = Range(base_kw)
        /\ (pc = "returned" /\ ~InLog("ideas", 0, "fail")) =>
              /\ result.kind = "document"
              /\ result.ideas \in IdeaResponses
              /\ InLog("ideas", 0, "ok")
              /\ Len(result.summary) = Min(10, Len(all_kw))

\* the search failed, the base keywords held a duplicate, and the document
\* was returned
C2_Witness ==
    /\ pc = "returned"
    /\ InLog("search", 0, "fail")
    /\ result.kind = "document"
    /\ Len(base_kw) > Len(all_kw)
    /\ Len(all_kw) = 3

\* C3: the summary holds one bullet per attempted keyword, in the order of
\* the sorted keywords; the bullet of a keyword whose call failed is the
\* bare capitalized label; every one of the first min(10, n) keywords is
\* attempted whatever failed before, and the full document is returned.
C3_SummaryFailuresDegradePerKeyword ==
    /\ pc \in {"summaries", "summary_wait"} =>
          /\ Len(summaries) = ki - 1
          /\ \A n \in 1..Len(summaries) :
                /\ summaries[n].label = Title(all_kw[n])
                /\ InLog("summary", n, "fail") =>
                      (~summaries[n].described /\ summaries[n].desc = <<>>)
                /\ InLog("summary", n, "ok") => summaries[n].described
                /\ InLog("summary", n, "ok") \/ InLog("summary", n, "fail")
    /\ (pc = "returned" /\ InLog("ideas", 0, "ok")) =>
          /\ result.kind = "document"
          /\ result.ideas = ideas_md
          /\ result.summary = summaries
          /\ Len(result.summary) = Min(10, Len(all_kw))
          /\ \A n \in 1..Min(10, Len(all_kw)) :
                /\ InLog("summary", n, "call")
                /\ result.summary[n].label = Title(all_kw[n])
                /\ result.summary[n].described = ~InLog("summary", n, "fail")

\* more than 10 keywords, the first and the fourth summary failed, the
\* second succeeded, and the document with 10 bullets was returned
C3_Witness ==
    /\ pc = "returned"
    /\ result.kind = "document"
    /\ Len(all_kw) > 10
    /\ Len(result.summary) = 10
    /\ InLog("summary", 1, "fail")
    /\ InLog("summary", 4, "fail")
    /\ result.summary[1] = [label |-> <<"A">>, described |-> FALSE, desc |-> <<>>]
    /\ result.summary[2] = [label |-> <<"B">>, described |-> TRUE, desc |-> <<"x">>]

\* the failures that abort the request
FatalFailure(e) == e[1] \in {"sample", "base", "link", "ideas"} /\ e[3] = "fail"

\* C4: a failure of the sampling, of the base keyword extraction, of a
\* per-link extraction or of the idea generation is the last thing the
\* request does: it has returned an error message that starts with the
\* failure marker and holds no summary and no ideas.
C4_FatalFailuresAbort ==
    \A n \in 1..Len(log) :
        FatalFailure(log[n]) =>
            /\ n = Len(log)
            /\ pc = "returned"
            /\ inflight = NoCall
            /\ result.kind = "error"
            /\ result.marker = FailureMarker
            /\ result.summary = <<>>
            /\ result.ideas = <<>>

\* the extraction for the second link failed after the first succeeded
C4_Witness ==
    /\ pc = "returned"
    /\ InLog("link", 1, "ok")
    /\ log[Len(log)] = <<"link", 2, "fail">>
    /\ result = ErrorMessage("Error in keyword extraction or web search")

\* C5: no call is issued twice: the calls of the log are pairwise distinct,
\* the link calls are for found links and the summary calls for summarized
\* keywords.
C5_NoRetries ==
    /\ \A a, b \in CallPositions :
          a # b => <<log[a][1], log[a][2]>> # <<log[b][1], log[b][2]>>
    /\ \A a \in CallPositions :
          /\ log[a][1] = "link" => log[a][2] \in 1..Len(links)
          /\ log[a][1] = "summary" => log[a][2] \in 1..Min(10, Len(all_kw))
          /\ log[a][1] \in {"base", "search", "ideas"} => log[a][2] = 0

\* a failed search and a failed summary were each followed by other calls
C5_Witness ==
    /\ pc = "returned"
    /\ result.kind = "document"
    /\ InLog("search", 0, "fail")
    /\ InLog("summary", 1, "fail")
    /\ InLog("summary", 2, "ok")

\* the place of a call in the order of the stages
StageRank(kind) ==
    CASE kind = "base" -> 1
      [] kind = "search" -> 2
      [] kind = "link" -> 3
      [] kind = "ideas" -> 4
      [] kind = "summary" -> 5

\* C6: the calls are issued one at a time and in stage order: every call is
\* answered (returned or failed) before the next one is issued; base
\* extraction, search, the links in link order, idea generation, the
\* keywords in sorted order; the idea generation starts only after the
\* extraction of every link has returned, and a summary only after the idea
\* generation has returned.
C6_StrictlySequential ==
    /\ \A a \in CallPositions :
          a < Len(log) =>
              /\ log[a + 1][1] = log[a][1]
              /\ log[a + 1][2] = log[a][2]
              /\ log[a + 1][3] \in {"ok", "fail"}
    /\ \A n \in 1..Len(log) :
          (log[n][1] # "sample" /\ log[n][3] # "call") =>
              (n > 1 /\ log[n - 1] = <<log[n][1], log[n][2], "call">>)
    /\ (inflight # NoCall) =
          (Len(log) > 0 /\ log[Len(log)] = <<inflight.kind, inflight.idx, "call">>)
    /\ \A a, b \in CallPositions :
          a < b =>
              /\ StageRank(log[a][1]) <= StageRank(log[b][1])
              /\ log[a][1] = log[b][1] => log[a][2] < log[b][2]
    /\ \A a \in CallPositions :
          /\ log[a][1] \in {"link", "summary"} =>
                \A k \in 1..(log[a][2] - 1) :
                    \E b \in 1..(a - 1) : log[b] = <<log[a][1], k, "call">>
          /\ log[a][1] = "ideas" =>
                /\ \E b \in 1..(a - 1) : log[b] = <<"base", 0, "ok">>
                /\ \E b \in 1..(a - 1) :
                      log[b] \in {<<"search", 0, "ok">>, <<"search", 0, "fail">>}
                /\ \A k \in 1..Len(links) :
                      \E b \in 1..(a - 1) : log[b] = <<"link", k, "ok">>
          /\ log[a][1] = "summary" =>
                \E b \in 1..(a - 1) : log[b] = <<"ideas", 0, "ok">>

\* a request with two links and keywords went through all five kinds of call
C6_Witness ==
    /\ pc = "returned"
    /\ result.kind = "document"
    /\ Len(links) = 2
    /\ InLog("link", 2, "ok")
    /\ InLog("summary", 3, "ok")
    /\ InLog("summary", 2, "fail")

Distinct(s) == \A a, b \in 1..Len(s) : a # b => s[a] # s[b]

Described(names) == SelectSeq(names, LAMBDA name : PRODUCT_CATALOG[name] # <<>>)

CallCount == Cardinality(CallPositions)

CallsOfKind(kind) == Cardinality({a \in CallPositions : log[a][1] = kind})

\* C10: every request returns, and never issues more than 1 base
\* extraction, 1 search, 10 link extractions, 1 idea generation and 10
\* summaries: at most 23 calls.
C10_TerminatesWithinCallBudget ==
    /\ <>(pc = "returned" /\ result # NoResult)
    /\ [](/\ CallsOfKind("base") <= 1
          /\ CallsOfKind("search") <= 1
          /\ CallsOfKind("link") <= 10
          /\ CallsOfKind("ideas") <= 1
          /\ CallsOfKind("summary") <= 10
          /\ CallCount <= 23)

\* a request that used the whole budget of 23 calls has returned
C10_Witness ==
    /\ pc = "returned"
    /\ result.kind = "document"
    /\ CallCount = 23

====
